---- MODULE Spec2Model ----
(***************************************************************************)
(* RenetClient (renet/src/client.rs): the client session controller that   *)
(* drives a handshake layer (renetcode::NetcodeClient) and a reliable      *)
(* channel transport (rechannel::RemoteConnection) over a non-blocking     *)
(* datagram socket.  Time is counted in milliseconds.                      *)
(***************************************************************************)
EXTENDS Integers, Sequences, FiniteSets, TLC

\* ------------------------------------------------------------------ bounds
MaxTime == 37          \* update is not called once logical time would pass this
MaxInbox == 2          \* datagrams / receive results queued on the socket
MaxQueue == 1          \* messages the reliable transport holds ready to send
MaxDelivered == 1      \* messages the reliable transport holds for receive_message

StartTimes == {5}              \* current_time handed to RenetClient::new
Durations == {0, 16}           \* duration handed to update
Channels == {0}
Bodies == {"hello"}

NoReason == "None"
ServerAddr == "server"

Msgs == [ch : Channels, body : Bodies]
NoMsg == [ch |-> -1, body |-> "none"]

\* What a socket receive can hand back: a datagram, or an I/O error.
\* (An empty queue is WouldBlock.)
PacketKinds == {"Challenge", "KeepAlive", "Payload", "BadPayload", "Disconnect"}
StrangerKinds == {"KeepAlive", "BadPayload"}
Datagram(from, kind, msg) == [from |-> from, kind |-> kind, msg |-> msg]
Datagrams ==
    {Datagram(ServerAddr, k, NoMsg) : k \in PacketKinds \ {"Payload"}}
        \cup {Datagram(ServerAddr, "Payload", m) : m \in Msgs}
        \cup {Datagram("stranger", k, NoMsg) : k \in StrangerKinds}
RecvError == [from |-> "nobody", kind |-> "IoError", msg |-> NoMsg]

\* Result<(), RenetError>
Ok == [tag |-> "Ok", reason |-> NoReason]
IoErr == [tag |-> "IO", reason |-> NoReason]
NetcodeErr(reason) == [tag |-> "Netcode", reason |-> reason]
RechannelErr(reason) == [tag |-> "Rechannel", reason |-> reason]

\* Option<DisconnectionReason>
NoDisconnection == [layer |-> "None", reason |-> NoReason]
Disconnection(layer, reason) == [layer |-> layer, reason |-> reason]

\* ------------------------------------------------ handshake layer (renetcode)
\* The layer's timers (its timeout, the rate of its packets) are its own: what
\* its maintenance finds at a tick is drawn from NetcodeEvents.
\*   "packet"   it produces the packet of its state (request, response, keep-alive)
\*   "quiet"    it produces nothing
\*   "timeout"  it finds the connection timed out
NetcodeEvents == {"packet", "quiet", "timeout"}

NetcodeNew(t) == [state |-> "SendingConnectionRequest", reason |-> NoReason, time |-> t]

netcode_connected(nc) == nc.state = "Connected"

netcode_disconnected(nc) == IF nc.state = "Disconnected" THEN nc.reason ELSE NoReason

netcode_terminate(nc, reason) == [nc EXCEPT !.state = "Disconnected", !.reason = reason]

\* NetcodeClient::disconnect: the state becomes Disconnected(DisconnectedByClient),
\* then the disconnect packet is encoded (gen_ok: the encoding succeeds).
netcode_disconnect(nc, gen_ok) ==
    [nc |-> netcode_terminate(nc, "DisconnectedByClient"),
     ok |-> gen_ok,
     addr |-> ServerAddr,
     payload |-> "Disconnect"]

\* NetcodeClient::process_packet: Some(payload) only for a payload packet
\* received while connected.
netcode_process_packet(nc, dg) ==
    LET none(n) == [nc |-> n, payload |-> "None", msg |-> NoMsg]
    IN  CASE dg.kind = "Challenge" /\ nc.state = "SendingConnectionRequest" ->
                none([nc EXCEPT !.state = "SendingConnectionResponse"])
          [] dg.kind = "KeepAlive" /\ nc.state = "SendingConnectionResponse" ->
                none([nc EXCEPT !.state = "Connected"])
          [] dg.kind \in {"Payload", "BadPayload"} /\ nc.state = "Connected" ->
                [nc |-> nc, payload |-> dg.kind, msg |-> dg.msg]
          [] dg.kind = "Disconnect" /\ nc.state = "Connected" ->
                none(netcode_terminate(nc, "DisconnectedByServer"))
          [] OTHER -> none(nc)

\* NetcodeClient::generate_payload_packet
netcode_generate_payload_packet(nc, packet, wrap_ok) ==
    [ok |-> wrap_ok /\ netcode_connected(nc), addr |-> ServerAddr, payload |-> packet]

\* NetcodeClient::update: advance the clock; then a timeout ends the
\* connection, or the packet of the current state is produced, or nothing.
netcode_update(nc, duration, event) ==
    LET nc1 == [nc EXCEPT !.time = @ + duration]
        none(n) == [nc |-> n, packet |-> "None", addr |-> ServerAddr]
    IN  IF nc.state = "Disconnected" THEN none(nc1)
        ELSE IF event = "timeout" THEN
            none(netcode_terminate(nc1,
                    CASE nc.state = "SendingConnectionRequest" -> "ConnectionRequestTimedOut"
                      [] nc.state = "SendingConnectionResponse" -> "ConnectionResponseTimedOut"
                      [] OTHER -> "ConnectionTimedOut"))
        ELSE IF event = "packet" THEN
            [nc |-> nc1, addr |-> ServerAddr,
             packet |-> CASE nc.state = "SendingConnectionRequest" -> "ConnectionRequest"
                          [] nc.state = "SendingConnectionResponse" -> "Response"
                          [] OTHER -> "KeepAlive"]
        ELSE none(nc1)

\* -------------------------------------------- reliable transport (rechannel)
\* The layer's timeout timer is its own: whether its maintenance finds the
\* connection timed out at a tick is an input (timed_out).
RemoteNew(t) == [reason |-> NoReason, time |-> t, out |-> <<>>, inc |-> <<>>]

remote_disconnected(rc) == rc.reason

remote_advance_time(rc, duration) == [rc EXCEPT !.time = @ + duration]

\* RemoteConnection::process_packet: a malformed payload is a protocol
\* violation and ends the connection; a good one delivers its message.
remote_process_packet(rc, payload, msg) ==
    IF rc.reason # NoReason THEN [rc |-> rc, err |-> RechannelErr(rc.reason)]
    ELSE IF payload = "BadPayload" THEN
        [rc |-> [rc EXCEPT !.reason = "ReceiveChannelError"],
         err |-> RechannelErr("ReceiveChannelError")]
    ELSE [rc |-> [rc EXCEPT !.inc = Append(@, msg)], err |-> Ok]

\* RemoteConnection::update: periodic maintenance, detects the timeout.
remote_update(rc, timed_out) ==
    IF rc.reason # NoReason THEN [rc |-> rc, err |-> RechannelErr(rc.reason)]
    ELSE IF timed_out THEN
        [rc |-> [rc EXCEPT !.reason = "TimedOut"], err |-> RechannelErr("TimedOut")]
    ELSE [rc |-> rc, err |-> Ok]

\* RemoteConnection::get_packets_to_send: one packet per queued message.
remote_get_packets_to_send(rc) ==
    IF rc.reason # NoReason THEN [rc |-> rc, packets |-> <<>>, err |-> RechannelErr(rc.reason)]
    ELSE [rc |-> [rc EXCEPT !.out = <<>>], packets |-> rc.out, err |-> Ok]

remote_send_message(rc, m) == [rc EXCEPT !.out = Append(@, m)]

\* RemoteConnection::receive_message: the oldest delivered message of the channel.
RECURSIVE RemoveFirst(_, _)
RemoveFirst(s, ch) ==
    IF s = <<>> THEN <<>>
    ELSE IF Head(s).ch = ch THEN Tail(s)
    ELSE <<Head(s)>> \o RemoveFirst(Tail(s), ch)

remote_receive_message(rc, ch) ==
    LET of_ch == SelectSeq(rc.inc, LAMBDA m : m.ch = ch)
    IN  [rc |-> [rc EXCEPT !.inc = RemoveFirst(@, ch)],
         msg |-> IF of_ch = <<>> THEN NoMsg ELSE Head(of_ch)]

\* ---------------------------------------- metrics aggregator (network_info)
\* Of the samples only this is kept: whether any was recorded since the last
\* recompute; of a bandwidth figure: 0, or 1 for any positive figure.
PacketInfoNew(t, len) == [time |-> t, len |-> len]

ClientPacketInfoNew ==
    [sent |-> FALSE, received |-> FALSE, sent_kbps |-> 0, received_kbps |-> 0]

add_packet_sent(cpi, info) == [cpi EXCEPT !.sent = TRUE]

add_packet_received(cpi, info) == [cpi EXCEPT !.received = TRUE]

\* The samples of the tick become the figures and are forgotten.
update_metrics(cpi) ==
    [sent |-> FALSE, received |-> FALSE,
     sent_kbps |-> IF cpi.sent THEN 1 ELSE 0,
     received_kbps |-> IF cpi.received THEN 1 ELSE 0]

\* ------------------------------------------------- RenetClient (client.rs)
\* An operation runs on the session's fields (t, nc, rc, cpi) and on rx, what
\* the socket's recv_from will return, in order.  Next to their new values it
\* leaves its result and a trace of the calls it made:
\*   recvs       socket.recv_from calls (the one answered WouldBlock included)
\*   recv_error  a recv_from call failed with an I/O error
\*   ingest_error  reliable_connection.process_packet rejected a payload
\*   discarded   datagrams dropped for their sender address
\*   processed   datagrams handed to netcode_client.process_packet, in order
\*   ingested    payloads handed to reliable_connection.process_packet, in order
\*   samples     received-packet samples recorded, in order
\*   sends       socket.send_to attempts, in order, each with its sample
\*   drained     packets taken from reliable_connection.get_packets_to_send
\*   steps       the maintenance steps of update that ran, in order
\*   sent_samples  sent-packet samples recorded, in order
\*   log         every call made on the socket and on the layers, in order
Enter(t, nc, rc, cpi, rx) ==
    [t |-> t, nc |-> nc, rc |-> rc, cpi |-> cpi, rx |-> rx, result |-> Ok,
     recvs |-> 0, recv_error |-> FALSE, ingest_error |-> FALSE,
     discarded |-> 0, processed |-> <<>>,
     ingested |-> <<>>, samples |-> <<>>, sends |-> <<>>, drained |-> <<>>,
     steps |-> <<>>, sent_samples |-> <<>>, log |-> <<>>]

\* is_connected taken for "not disconnected".
is_connected_unless_disconnected(nc) == netcode_disconnected(nc) = NoReason

is_connected(nc) == netcode_connected(nc)

\* disconnected with the two layers asked in the other order.
disconnected_netcode_first(nc, rc) ==
    IF netcode_disconnected(nc) # NoReason
    THEN Disconnection("Netcode", netcode_disconnected(nc))
    ELSE IF remote_disconnected(rc) # NoReason
    THEN Disconnection("Rechannel", remote_disconnected(rc))
    ELSE NoDisconnection

disconnected(nc, rc) ==
    IF remote_disconnected(rc) # NoReason
    THEN Disconnection("Rechannel", remote_disconnected(rc))
    ELSE IF netcode_disconnected(nc) # NoReason
    THEN Disconnection("Netcode", netcode_disconnected(nc))
    ELSE NoDisconnection

\* send_to recording the sample only once the socket send has succeeded.
send_to_sampling_after(x, packet, address, send_ok) ==
    LET info == PacketInfoNew(x.t, 1)
        x1 == [x EXCEPT !.sends = Append(@, [packet |-> packet, to |-> address,
                                             ok |-> send_ok, sample |-> info]),
                        !.log = Append(@, "send_to")]
    IN  IF send_ok
        THEN [x1 EXCEPT !.cpi = add_packet_sent(@, info), !.sent_samples = Append(@, info)]
        ELSE x1

\* send_to: the sample is recorded first, then the socket send is attempted.
send_to(x, packet, address, send_ok) ==
    LET info == PacketInfoNew(x.t, 1)
    IN  [x EXCEPT !.cpi = add_packet_sent(@, info),
                  !.sent_samples = Append(@, info),
                  !.sends = Append(@, [packet |-> packet, to |-> address,
                                       ok |-> send_ok, sample |-> info]),
                  !.log = Append(@, "send_to")]

\* The send failure dropped where it should be returned.
swallow_send_error(x, send_ok) == x

\* The `?` after send_to in send_packets and update.
propagate_send_error(x, send_ok) == IF send_ok THEN x ELSE [x EXCEPT !.result = IoErr]

\* The `if let Err(e)` after send_to in disconnect: logged only.
log_send_error(x, send_ok) == x

\* disconnect that drops the packet the handshake layer produced.
disconnect_without_send(x, gen_ok, send_ok) ==
    [x EXCEPT !.nc = netcode_disconnect(x.nc, gen_ok).nc]

\* disconnect trying the send a second time when it failed.
disconnect_retrying(x, gen_ok, send_ok) ==
    LET d == netcode_disconnect(x.nc, gen_ok)
        x1 == [x EXCEPT !.nc = d.nc]
        x2 == send_to(x1, d.payload, d.addr, send_ok)
    IN  IF ~d.ok THEN x1
        ELSE IF send_ok THEN x2
        ELSE send_to(x2, d.payload, d.addr, send_ok)

disconnect(x, gen_ok, send_ok) ==
    LET d == netcode_disconnect(x.nc, gen_ok)
        x1 == [x EXCEPT !.nc = d.nc]
    IN  IF d.ok THEN log_send_error(send_to(x1, d.payload, d.addr, send_ok), send_ok)
        ELSE x1

\* fail = [at, kind]: the at-th drained packet fails to be wrapped ("wrap") or
\* to be sent ("send"); at = 0: nothing fails.
RECURSIVE FlushPackets(_, _, _, _)
FlushPackets(x, packets, i, fail) ==
    IF packets = <<>> THEN x
    ELSE LET g == netcode_generate_payload_packet(x.nc, Head(packets),
                                                  ~(fail.at = i /\ fail.kind = "wrap"))
             send_ok == ~(fail.at = i /\ fail.kind = "send")
         IN  IF ~g.ok THEN [x EXCEPT !.result = NetcodeErr("PacketGeneration")]
             ELSE LET x1 == propagate_send_error(send_to(x, g.payload, g.addr, send_ok), send_ok)
                  IN  IF x1.result # Ok THEN x1
                      ELSE FlushPackets(x1, Tail(packets), i + 1, fail)

\* send_packets without the `if self.netcode_client.connected()`.
send_packets_unguarded(x, fail) ==
    LET g == remote_get_packets_to_send(x.rc)
    IN  IF g.err # Ok THEN [x EXCEPT !.rc = g.rc, !.result = g.err]
        ELSE FlushPackets([x EXCEPT !.rc = g.rc, !.drained = g.packets], g.packets, 1, fail)

\* send_packets flushing the drained packets last first.
Reverse(seq) == [i \in 1..Len(seq) |-> seq[Len(seq) + 1 - i]]

send_packets_newest_first(x, fail) ==
    IF netcode_connected(x.nc) THEN
        LET g == remote_get_packets_to_send(x.rc)
        IN  IF g.err # Ok THEN [x EXCEPT !.rc = g.rc, !.result = g.err]
            ELSE FlushPackets([x EXCEPT !.rc = g.rc, !.drained = g.packets],
                              Reverse(g.packets), 1, fail)
    ELSE x

send_packets(x, fail) ==
    IF netcode_connected(x.nc) THEN
        LET g == remote_get_packets_to_send(x.rc)
        IN  IF g.err # Ok THEN [x EXCEPT !.rc = g.rc, !.result = g.err]
            ELSE FlushPackets([x EXCEPT !.rc = g.rc, !.drained = g.packets], g.packets, 1, fail)
    ELSE x

\* The receive loop without the sender check.
AddrAcceptedAny(addr, server_addr) == TRUE

\* The sender check turned around.
AddrAcceptedOthers(addr, server_addr) == addr # server_addr

\* `addr != self.netcode_client.server_addr()` is false: the datagram is kept.
AddrAccepted(addr, server_addr) == addr = server_addr

RECURSIVE ReceiveLoop(_)
ReceiveLoop(x) ==
    LET x1 == [x EXCEPT !.recvs = @ + 1, !.log = Append(@, "recv_from")]
    IN  IF x.rx = <<>> THEN x1
        ELSE LET dg == Head(x.rx)
                 x2 == [x1 EXCEPT !.rx = Tail(@)]
             IN  IF dg.kind = "IoError" THEN [x2 EXCEPT !.result = IoErr, !.recv_error = TRUE]
                 ELSE IF ~AddrAccepted(dg.from, ServerAddr)
                 THEN ReceiveLoop([x2 EXCEPT !.discarded = @ + 1])
                 ELSE LET info == PacketInfoNew(x.t, 1)
                          p == netcode_process_packet(x2.nc, dg)
                          x3 == [x2 EXCEPT !.cpi = add_packet_received(@, info),
                                           !.samples = Append(@, info),
                                           !.processed = Append(@, dg),
                                           !.nc = p.nc,
                                           !.log = Append(@, "process_packet")]
                      IN  IF p.payload = "None" THEN ReceiveLoop(x3)
                          ELSE LET q == remote_process_packet(x3.rc, p.payload, p.msg)
                                   x4 == [x3 EXCEPT !.rc = q.rc,
                                                    !.ingested = Append(@, dg),
                                                    !.log = Append(@, "ingest")]
                               IN  IF q.err # Ok
                                   THEN [x4 EXCEPT !.result = q.err, !.ingest_error = TRUE]
                                   ELSE ReceiveLoop(x4)

\* `=` for `+=`.
advance_time_assign(t, duration) == duration

\* `self.current_time += duration`
advance_time(t, duration) == t + duration

\* The maintenance with the metrics recompute moved before the handshake
\* layer's maintenance and send.
Maintenance_metrics_first(x, duration, env) ==
    LET send_ok == env.fault # "send"
        u == remote_update(x.rc, env.fault = "remote_timeout")
        x1 == [x EXCEPT !.rc = u.rc, !.steps = Append(@, "remote_update"),
                        !.log = Append(@, "remote_update")]
    IN  IF u.err # Ok THEN [x1 EXCEPT !.result = u.err]
        ELSE LET x2 == [x1 EXCEPT !.cpi = update_metrics(@),
                                  !.steps = Append(@, "update_metrics"),
                                  !.log = Append(@, "update_metrics")]
                 n == netcode_update(x2.nc, duration, env.netcode)
                 x3 == [x2 EXCEPT !.nc = n.nc, !.steps = Append(@, "netcode_update"),
                                  !.log = Append(@, "netcode_update")]
             IN  IF n.packet # "None"
                 THEN propagate_send_error(send_to(x3, n.packet, n.addr, send_ok), send_ok)
                 ELSE x3

\* The rest of update once the receive loop has ended without an error.
Maintenance(x, duration, env) ==
    LET send_ok == env.fault # "send"
        u == remote_update(x.rc, env.fault = "remote_timeout")
        x1 == [x EXCEPT !.rc = u.rc, !.steps = Append(@, "remote_update"),
                        !.log = Append(@, "remote_update")]
    IN  IF u.err # Ok THEN [x1 EXCEPT !.result = u.err]
        ELSE LET n == netcode_update(x1.nc, duration, env.netcode)
                 x2 == [x1 EXCEPT !.nc = n.nc, !.steps = Append(@, "netcode_update"),
                                  !.log = Append(@, "netcode_update")]
                 x3 == IF n.packet # "None"
                       THEN propagate_send_error(send_to(x2, n.packet, n.addr, send_ok), send_ok)
                       ELSE x2
             IN  IF x3.result # Ok THEN x3
                 ELSE [x3 EXCEPT !.cpi = update_metrics(@),
                                 !.steps = Append(@, "update_metrics"),
                                 !.log = Append(@, "update_metrics")]

\* update without the handshake layer's terminal check at its start.
update_netcode_unchecked(x, duration, env) ==
    LET gen_ok == env.fault # "encode"
        send_ok == env.fault # "send"
        x1 == [x EXCEPT !.t = advance_time(@, duration),
                        !.rc = remote_advance_time(@, duration)]
    IN  IF remote_disconnected(x1.rc) # NoReason
        THEN [disconnect(x1, gen_ok, send_ok) EXCEPT
                    !.result = RechannelErr(remote_disconnected(x1.rc))]
        ELSE LET x2 == ReceiveLoop(x1)
             IN  IF x2.result # Ok THEN x2 ELSE Maintenance(x2, duration, env)

\* update asking the reliable transport for its reason before the handshake layer.
update_reliable_first(x, duration, env) ==
    LET gen_ok == env.fault # "encode"
        send_ok == env.fault # "send"
        x1 == [x EXCEPT !.t = advance_time(@, duration),
                        !.rc = remote_advance_time(@, duration)]
    IN  IF remote_disconnected(x1.rc) # NoReason
        THEN [disconnect(x1, gen_ok, send_ok) EXCEPT
                    !.result = RechannelErr(remote_disconnected(x1.rc))]
        ELSE IF netcode_disconnected(x1.nc) # NoReason
        THEN [x1 EXCEPT !.result = NetcodeErr(netcode_disconnected(x1.nc))]
        ELSE LET x2 == ReceiveLoop(x1)
             IN  IF x2.result # Ok THEN x2 ELSE Maintenance(x2, duration, env)

\* update leaving the receive loop on an error (`break`) instead of returning.
update_breaking_on_error(x, duration, env) ==
    LET gen_ok == env.fault # "encode"
        send_ok == env.fault # "send"
        x1 == [x EXCEPT !.t = advance_time(@, duration),
                        !.rc = remote_advance_time(@, duration)]
    IN  IF netcode_disconnected(x1.nc) # NoReason
        THEN [x1 EXCEPT !.result = NetcodeErr(netcode_disconnected(x1.nc))]
        ELSE IF remote_disconnected(x1.rc) # NoReason
        THEN [disconnect(x1, gen_ok, send_ok) EXCEPT
                    !.result = RechannelErr(remote_disconnected(x1.rc))]
        ELSE Maintenance(ReceiveLoop(x1), duration, env)

\* update running the maintenance before it reads the socket.
update_reading_last(x, duration, env) ==
    LET gen_ok == env.fault # "encode"
        send_ok == env.fault # "send"
        x1 == [x EXCEPT !.t = advance_time(@, duration),
                        !.rc = remote_advance_time(@, duration)]
    IN  IF netcode_disconnected(x1.nc) # NoReason
        THEN [x1 EXCEPT !.result = NetcodeErr(netcode_disconnected(x1.nc))]
        ELSE IF remote_disconnected(x1.rc) # NoReason
        THEN [disconnect(x1, gen_ok, send_ok) EXCEPT
                    !.result = RechannelErr(remote_disconnected(x1.rc))]
        ELSE LET x2 == Maintenance(x1, duration, env)
             IN  IF x2.result # Ok THEN x2 ELSE ReceiveLoop(x2)

\* update advancing the reliable transport's clock only after the terminal checks.
update_late_clock(x, duration, env) ==
    LET gen_ok == env.fault # "encode"
        send_ok == env.fault # "send"
        x1 == [x EXCEPT !.t = advance_time(@, duration)]
        x2 == [x1 EXCEPT !.rc = remote_advance_time(@, duration)]
    IN  IF netcode_disconnected(x1.nc) # NoReason
        THEN [x1 EXCEPT !.result = NetcodeErr(netcode_disconnected(x1.nc))]
        ELSE IF remote_disconnected(x1.rc) # NoReason
        THEN [disconnect(x1, gen_ok, send_ok) EXCEPT
                    !.result = RechannelErr(remote_disconnected(x1.rc))]
        ELSE LET x3 == ReceiveLoop(x2)
             IN  IF x3.result # Ok THEN x3 ELSE Maintenance(x3, duration, env)

update(x, duration, env) ==
    LET gen_ok == env.fault # "encode"
        send_ok == env.fault # "send"
        x1 == [x EXCEPT !.t = advance_time(@, duration),
                        !.rc = remote_advance_time(@, duration)]
    IN  IF netcode_disconnected(x1.nc) # NoReason
        THEN [x1 EXCEPT !.result = NetcodeErr(netcode_disconnected(x1.nc))]
        ELSE IF remote_disconnected(x1.rc) # NoReason
        THEN [disconnect(x1, gen_ok, send_ok) EXCEPT
                    !.result = RechannelErr(remote_disconnected(x1.rc))]
        ELSE LET x2 == ReceiveLoop(x1)
             IN  IF x2.result # Ok THEN x2 ELSE Maintenance(x2, duration, env)

\* ----------------------------------------------------------------- actions
VARIABLES
    start_time,           \* the time RenetClient::new was given (never changes)
    current_time,         \* RenetClient.current_time
    netcode_client,       \* RenetClient.netcode_client
    reliable_connection,  \* RenetClient.reliable_connection
    client_packet_info,   \* RenetClient.client_packet_info
    sum_durations,        \* history: sum of the durations given to update so far
    was_connected,        \* history: the handshake layer has reported a completed handshake
    client_disconnected,  \* history: disconnect() was called while is_connected() was true
    call                  \* history: the last operation, its inputs and its trace

vars == <<start_time, current_time, netcode_client, reliable_connection,
          client_packet_info, sum_durations, was_connected, client_disconnected, call>>

\* The session's fields, with rx queued on its socket.  Datagrams are not kept
\* from one tick to the next: the socket's queue at a tick is whatever the
\* network put and left there, any sequence.
Session(rx) ==
    Enter(current_time, netcode_client, reliable_connection, client_packet_info, rx)

NoEnv == [fault |-> "none", netcode |-> "quiet"]

FromServer(rx) == SelectSeq(rx, LAMBDA d : d.from = ServerAddr)

\* rx without the datagrams of other senders than the server.
WithoutStrangers(rx) == SelectSeq(rx, LAMBDA d : d.kind = "IoError" \/ d.from = ServerAddr)

\* What the operation did to the session and to the peer.
Effect(x) == <<x.t, x.nc, x.rc, x.cpi, x.result, x.processed, x.ingested, x.sends, x.steps>>

\* The phase of update a logged call belongs to.
Phase(entry) ==
    CASE entry \in {"recv_from", "process_packet", "ingest"} -> 0
      [] entry = "remote_update" -> 1
      [] entry = "netcode_update" -> 2
      [] entry = "send_to" -> 3
      [] entry = "update_metrics" -> 4

\* The calls of `post` were made phase after phase, each datagram handed to
\* the handshake layer right after its receive and to the reliable transport
\* right after that, and the datagrams handed on are the server's of those
\* read from `pre`, in the order of their arrival.
InOrder(pre, post) ==
    LET log == post.log
        read == SubSeq(pre.rx, 1, Len(pre.rx) - Len(post.rx))
    IN  /\ \A i \in 1..Len(log) :
                /\ i > 1 => Phase(log[i - 1]) <= Phase(log[i])
                /\ log[i] = "process_packet" => i > 1 /\ log[i - 1] = "recv_from"
                /\ log[i] = "ingest" => i > 1 /\ log[i - 1] = "process_packet"
        /\ post.processed = FromServer(SelectSeq(read, LAMBDA d : d.kind # "IoError"))
        /\ \A i \in 1..Len(post.ingested) : post.ingested[i].kind \in {"Payload", "BadPayload"}
        /\ Len(post.ingested) = Len(SelectSeq(log, LAMBDA e : e = "ingest"))

\* is what it leaves when run on `pre` without the strangers' datagrams;
\* rejected_after_recv_error: the operation is an update that had a payload
\* rejected, and the operation before it was an update that failed on a receive.
Observe(op, arg, pre, post, ref) ==
    [op |-> op, arg |-> arg, result |-> post.result,
     recvs |-> post.recvs, recv_error |-> post.recv_error, unread |-> Len(post.rx),
     ingest_error |-> post.ingest_error, rejected_after_recv_error |-> FALSE,
     discarded |-> post.discarded,
     processed |-> Len(post.processed),
     ingested |-> Len(post.ingested),
     strangers_processed |-> Len(post.processed) - Len(FromServer(post.processed)),
     samples |-> Len(post.samples),
     sent_samples |-> Len(post.sent_samples),
     in_order |-> InOrder(pre, post),
     strangers_ignored |-> Effect(post) = Effect(ref),
     sends |-> post.sends,
     drained |-> post.drained,
     steps |-> post.steps]

\* The operation `op` has run and left `post`.
Finish(op, arg, pre, post, ref) ==
    /\ current_time' = post.t
    /\ netcode_client' = post.nc
    /\ reliable_connection' = post.rc
    /\ client_packet_info' = post.cpi
    /\ was_connected' = (was_connected \/ netcode_connected(post.nc))
    /\ call' = [Observe(op, arg, pre, post, ref) EXCEPT
                    !.rejected_after_recv_error = (post.ingest_error /\ call.op = "update"
                                            /\ call.recv_error)]
    /\ UNCHANGED start_time

Init ==
    /\ start_time \in StartTimes
    /\ current_time = start_time
    /\ netcode_client = NetcodeNew(start_time)
    /\ reliable_connection = RemoteNew(start_time)
    /\ client_packet_info = ClientPacketInfoNew
    /\ sum_durations = 0
    /\ was_connected = FALSE
    /\ client_disconnected = FALSE
    /\ call = LET x == Enter(start_time, NetcodeNew(start_time), RemoteNew(start_time),
                             ClientPacketInfoNew, <<>>)
              IN  Observe("new", start_time, x, x, x)

\* What the socket holds at a tick: at most n datagrams and receive faults, in
\* the order recv_from will return them.
Arrivals(n) == UNION {[1..k -> Datagrams \cup {RecvError}] : k \in 0..n}

Count(rx, kinds) == Len(SelectSeq(rx, LAMBDA d : d.kind \in kinds))

\* What the surroundings do during one update: at most one thing goes wrong
\* (a later fault of the same tick would not be reached), and the handshake
\* layer's maintenance finds one of its events.
\*   "encode"          the disconnect packet cannot be encoded
\*   "send"            socket.send_to fails
\*   "remote_timeout"  the reliable transport's maintenance finds a timeout
Env(fault, netcode) == [fault |-> fault, netcode |-> netcode]
MaintenanceEnvs ==
    {Env("none", "packet"), Env("none", "quiet"), Env("none", "timeout"),
     Env("send", "packet"), Env("remote_timeout", "quiet")}
DisconnectEnvs == {Env("none", "quiet"), Env("encode", "quiet"), Env("send", "quiet")}

\* Only what the tick can meet is drawn: x is the tick without any fault.
EnvsOf(x) ==
    IF x.steps # <<>> THEN MaintenanceEnvs
    ELSE IF x.sends # <<>> THEN DisconnectEnvs
    ELSE {NoEnv}

\* RenetClient::update(duration), with rx queued on the socket.
Update ==
    \E duration \in Durations :
        /\ current_time + duration <= MaxTime
        /\ \E rx \in Arrivals(MaxInbox) :
            /\ Len(reliable_connection.inc) + Count(rx, {"Payload"}) <= MaxDelivered
            /\ \E env \in EnvsOf(update(Session(rx), duration, NoEnv)) :
                LET post == update(Session(rx), duration, env)
                    ref == IF WithoutStrangers(rx) = rx THEN post
                           ELSE update(Session(WithoutStrangers(rx)), duration, env)
                IN  Finish("update", duration, Session(rx), post, ref)
        /\ sum_durations' = sum_durations + duration
        /\ UNCHANGED client_disconnected

\* RenetClient::send_packets()
FailChoices(n) ==
    {[at |-> 0, kind |-> "none"]} \cup [at : 1..n, kind : {"wrap", "send"}]

SendPackets ==
    \E fail \in FailChoices(Len(reliable_connection.out)) :
        /\ LET x == send_packets(Session(<<>>), fail)
           IN  Finish("send_packets", 0, Session(<<>>), x, x)
        /\ UNCHANGED <<sum_durations, client_disconnected>>

\* RenetClient::disconnect()
Disconnect ==
    \E gen_ok \in BOOLEAN, send_ok \in BOOLEAN :
        /\ LET x == disconnect(Session(<<>>), gen_ok, send_ok)
           IN  Finish("disconnect", gen_ok, Session(<<>>), x, x)
        /\ client_disconnected' = (client_disconnected \/ is_connected(netcode_client))
        /\ UNCHANGED sum_durations

\* RenetClient::send_message(channel_id, message)
SendMessage ==
    \E m \in Msgs :
        /\ Len(reliable_connection.out) < MaxQueue
        /\ LET x == [Session(<<>>) EXCEPT !.rc = remote_send_message(@, m)]
           IN  Finish("send_message", 0, Session(<<>>), x, x)
        /\ UNCHANGED <<sum_durations, client_disconnected>>

\* RenetClient::receive_message(channel_id)
ReceiveMessage ==
    \E ch \in Channels :
        /\ LET x == [Session(<<>>) EXCEPT !.rc = remote_receive_message(@, ch).rc]
           IN  Finish("receive_message", 0, Session(<<>>), x, x)
        /\ UNCHANGED <<sum_durations, client_disconnected>>

Next ==
    \/ Update
    \/ SendPackets
    \/ Disconnect
    \/ SendMessage
    \/ ReceiveMessage

Spec == Init /\ [][Next]_vars

\* ------------------------------------------- against a cooperative peer
\* The loopback scenario: the caller ticks with update(16 ms) and sends
\* messages; the peer answers each handshake packet by the next tick, nothing
\* is lost, no timer expires, no call on the socket fails on its own; other
\* senders may still drop a datagram on the socket.
MaxPeerTime == 69      \* update is not called once logical time would pass this
MaxFlush == 3          \* messages queued for one send_packets
TickDuration == 16
FlushBodies == {"hello", "world"}
FlushMsgs == [ch : Channels, body : FlushBodies]

\* What the peer put on the socket since the last tick: its answer to the
\* packet the handshake layer sent at that tick, which is the packet of the
\* state the layer is in now (the state changes only before the send of a
\* tick); nothing before the first tick.
PeerAnswer ==
    IF sum_durations = 0 THEN <<>>
    ELSE CASE netcode_client.state = "SendingConnectionRequest" ->
                    <<Datagram(ServerAddr, "Challenge", NoMsg)>>
           [] netcode_client.state \in {"SendingConnectionResponse", "Connected"} ->
                    <<Datagram(ServerAddr, "KeepAlive", NoMsg)>>
           [] OTHER -> <<>>

Strays == {<<>>} \cup {<<Datagram("stranger", k, NoMsg)>> : k \in StrangerKinds}

\* RenetClient::update(16 ms) with the peer's answer queued on the socket.
PeerTick ==
    /\ current_time + TickDuration <= MaxPeerTime
    /\ \E before \in Strays :
            \E post \in {update(Session(before \o PeerAnswer), TickDuration,
                                 Env("none", "packet"))},
               ref \in {update(Session(PeerAnswer), TickDuration, Env("none", "packet"))} :
                Finish("update", TickDuration, Session(before \o PeerAnswer), post, ref)
    /\ sum_durations' = sum_durations + TickDuration
    /\ UNCHANGED client_disconnected

\* RenetClient::send_message(channel_id, message), up to MaxFlush queued.
PeerSendMessage ==
    \E m \in FlushMsgs :
        /\ Len(reliable_connection.out) < MaxFlush
        /\ LET x == [Session(<<>>) EXCEPT !.rc = remote_send_message(@, m)]
           IN  Finish("send_message", 0, Session(<<>>), x, x)
        /\ UNCHANGED <<sum_durations, client_disconnected>>

PeerNext ==
    \/ PeerTick
    \/ PeerSendMessage
    \/ SendPackets

PeerSpec == Init /\ [][PeerNext]_vars /\ WF_vars(PeerTick)

\* ------------------------------------------------------------------ claims
\* What the two accessors return in the current state.
Connected == is_connected(netcode_client)
Reason == disconnected(netcode_client, reliable_connection)

\* The failure update returns for a disconnection reason.
ErrOf(d) == [tag |-> d.layer, reason |-> d.reason]

FailedSends(sends) == {i \in 1..Len(sends) : ~sends[i].ok}
Ran(steps, step) == \E i \in 1..Len(steps) : steps[i] = step

\* C1: logical time is the construction time plus the sum of the durations
\* given to update so far (failed updates included); no other operation
\* changes it, and it never decreases.
C1_LogicalTime ==
    /\ current_time = start_time + sum_durations
    /\ [][/\ current_time' = start_time' + sum_durations'
          /\ current_time' >= current_time
          /\ call'.op # "update" => current_time' = current_time
          /\ call'.op = "update" => current_time' = current_time + call'.arg]_vars

\* A second update of 16 ms has failed, and the time counts both.
C1_Witness ==
    /\ call.op = "update" /\ call.arg = 16 /\ call.result # Ok
    /\ sum_durations = 32
    /\ current_time = start_time + 32

\* C2: whenever disconnected() returns a reason, is_connected() is false.
C2_ReasonImpliesNotConnected == Reason # NoDisconnection => ~Connected

\* C3: once disconnected() returns a reason, an update returns the failure of
\* that reason, the reason disconnected() goes on to report, and does no
\* socket receive.
C3_SameTerminalFailure ==
    [][(Reason # NoDisconnection /\ call'.op = "update") =>
            /\ call'.recvs = 0
            /\ call'.result = ErrOf(Reason)
            /\ call'.result = ErrOf(Reason')]_vars

\* C4 as stated: an update made in a terminal state does no socket receive
\* and no socket send.
C4_NoNetworkActivity ==
    [][(Reason # NoDisconnection /\ call'.op = "update") =>
            call'.recvs = 0 /\ call'.sends = <<>>]_vars

\* C4, amended: an update made in a terminal state does no socket receive; it
\* does no send when the handshake layer is terminal, and otherwise (only the
\* reliable transport is terminal) at most one send, of the disconnect packet
\* to the peer.
C4_TerminalUpdate ==
    [][(Reason # NoDisconnection /\ call'.op = "update") =>
            /\ call'.recvs = 0
            /\ netcode_disconnected(netcode_client) # NoReason => call'.sends = <<>>
            /\ Len(call'.sends) <= 1
            /\ \A i \in 1..Len(call'.sends) :
                    call'.sends[i].packet = "Disconnect" /\ call'.sends[i].to = ServerAddr]_vars

\* An update found only the reliable transport terminal and sent the
\* disconnect packet without reading the socket.
C4_Witness ==
    /\ call.op = "update" /\ call.recvs = 0
    /\ call.result.tag = "Rechannel"
    /\ Len(call.sends) = 1 /\ call.sends[1].packet = "Disconnect"

\* C5: a failed send of the disconnect packet or of the handshake layer's
\* maintenance packet is swallowed: disconnect() reports nothing, and update
\* returns no error and completes the tick, the metrics recompute included.
C5_SendFailureSwallowed ==
    /\ call.op = "disconnect" => call.result = Ok
    /\ (call.op = "update" /\ Ran(call.steps, "netcode_update")
            /\ FailedSends(call.sends) # {}) =>
                call.result = Ok /\ Ran(call.steps, "update_metrics")

\* C6: in update's receive loop a datagram of another sender than the peer is
\* not handed to either layer and records no sample; the update leaves the
\* session (is_connected() and disconnected() with it) as it would without
\* that datagram; the loop goes on after it: it ends only on an empty queue,
\* a receive error or an ingestion failure.
C6_StrangersDiscarded ==
    (call.op = "update" /\ call.recvs > 0) =>
        /\ call.strangers_processed = 0
        /\ call.samples = call.processed
        /\ call.ingested <= call.processed
        /\ call.strangers_ignored
        /\ call.recvs = call.discarded + call.processed
                            + (IF call.recv_error \/ call.result.tag # "Rechannel"
                                  \/ Ran(call.steps, "remote_update") THEN 1 ELSE 0)
        /\ call.unread > 0 => call.recv_error \/ call.result.tag = "Rechannel"

\* An update discarded a stranger's datagram and processed the server's of
\* the same tick, reading the queue to its end.
C6_Witness ==
    /\ call.op = "update"
    /\ call.discarded = 1 /\ call.processed = 1 /\ call.recvs = 3
    /\ call.unread = 0

\* C7: while the handshake layer does not report a completed handshake,
\* send_packets sends nothing, records no sample, drains nothing from the
\* reliable transport and succeeds; as long as the handshake never completed,
\* send_packets has sent nothing.
C7_NoSendUnlessConnected ==
    [][call'.op = "send_packets" =>
            /\ ~netcode_connected(netcode_client) =>
                    /\ call'.sends = <<>>
                    /\ call'.drained = <<>>
                    /\ call'.result = Ok
                    /\ reliable_connection' = reliable_connection
                    /\ client_packet_info' = client_packet_info
            /\ ~was_connected' => call'.sends = <<>>]_vars

\* send_packets was called with a message queued while the handshake layer
\* was not connected, and left the message queued.
C7_Witness ==
    /\ call.op = "send_packets"
    /\ ~netcode_connected(netcode_client)
    /\ reliable_connection.out # <<>>
    /\ call.sends = <<>>

\* C8: disconnected() is the reliable transport's reason whenever it has one,
\* otherwise the handshake layer's reason if it has one, otherwise none.
DisconnectedReference(nc, rc) ==
    CASE rc.reason # NoReason -> [layer |-> "Rechannel", reason |-> rc.reason]
      [] rc.reason = NoReason /\ nc.state = "Disconnected" ->
            [layer |-> "Netcode", reason |-> nc.reason]
      [] OTHER -> [layer |-> "None", reason |-> NoReason]

C8_Precedence == Reason = DisconnectedReference(netcode_client, reliable_connection)

\* Both layers have a reason, and they differ.
C8_Witness ==
    /\ reliable_connection.reason # NoReason
    /\ netcode_client.state = "Disconnected"
    /\ netcode_client.reason # reliable_connection.reason
    /\ Reason.layer = "Rechannel"

\* C9: the observable state starts Connecting and only moves forward along
\* Connecting, Connected, Disconnected; once disconnected() returns a reason
\* it returns one ever after and is_connected() does not become true again.
ObservableRank(connected, reason) ==
    IF reason # NoDisconnection THEN 2 ELSE IF connected THEN 1 ELSE 0

C9_ForwardOnly ==
    /\ ~Connected /\ Reason = NoDisconnection
    /\ [][/\ ObservableRank(Connected', Reason') >= ObservableRank(Connected, Reason)
          /\ Reason # NoDisconnection =>
                /\ Reason' # NoDisconnection
                /\ ~Connected => ~Connected']_vars

\* A session that was connected is disconnected, and an update has been made
\* on it since.
C9_Witness ==
    /\ was_connected /\ ~Connected
    /\ Reason # NoDisconnection
    /\ call.op = "update" /\ call.recvs = 0

\* C10 as stated: after disconnect() on a connected session the peer observes
\* a disconnect payload, is_connected() is false ever after and
\* disconnected() is the disconnected-by-client reason.
ByClient == Disconnection("Netcode", "DisconnectedByClient")

DisconnectDelivered(sends) ==
    \E i \in 1..Len(sends) :
        sends[i].packet = "Disconnect" /\ sends[i].to = ServerAddr /\ sends[i].ok

C10_ClientDisconnect ==
    [][client_disconnected' =>
            /\ ~Connected'
            /\ Reason' = ByClient
            /\ (call'.op = "disconnect" /\ Connected) => DisconnectDelivered(call'.sends)]_vars

\* C10, amended: after disconnect() on a connected session is_connected() is
\* false ever after and disconnected() returns a reason ever after: the
\* disconnected-by-client reason if the reliable transport has none of its
\* own, else the reliable transport's; the call makes exactly one send, of
\* the disconnect payload to the peer, if the handshake layer could encode
\* it, and none otherwise; the peer observes it if that send succeeded.
C10_ClientDisconnectBestEffort ==
    [][client_disconnected' =>
            /\ ~Connected'
            /\ netcode_disconnected(netcode_client') = "DisconnectedByClient"
            /\ Reason' = IF remote_disconnected(reliable_connection') # NoReason
                         THEN Disconnection("Rechannel", remote_disconnected(reliable_connection'))
                         ELSE ByClient
            /\ (call'.op = "disconnect" /\ Connected) =>
                    /\ Len(call'.sends) <= 1
                    /\ \A i \in 1..Len(call'.sends) :
                            call'.sends[i].packet = "Disconnect"
                                /\ call'.sends[i].to = ServerAddr
                    /\ call'.arg <=> Len(call'.sends) = 1
                    /\ DisconnectDelivered(call'.sends) <=>
                            (Len(call'.sends) = 1 /\ call'.sends[1].ok)]_vars

\* disconnect() was called on a connected session, the peer was sent the
\* disconnect payload, and the accessors report the local disconnect.
C10_Witness ==
    /\ client_disconnected
    /\ call.op = "disconnect" /\ DisconnectDelivered(call.sends)
    /\ ~Connected /\ Reason = ByClient

\* What the peer receives of the send attempts of a call, in order.
PeerReceived(sends) ==
    LET ok == SelectSeq(sends, LAMBDA a : a.ok)
    IN  [i \in 1..Len(ok) |-> ok[i].packet]

\* C11: while the handshake is completed, send_packets takes every packet the
\* reliable transport has ready and, when nothing fails, sends each one
\* wrapped to the peer address exactly once, in the transport's order, with
\* one sent-packet sample per packet; send_message(0, m) on an empty queue
\* followed by send_packets makes the peer receive exactly the payload of m.
C11_FlushAll ==
    [][(/\ call'.op = "send_packets"
        /\ netcode_connected(netcode_client)
        /\ remote_disconnected(reliable_connection) = NoReason) =>
            /\ call'.drained = reliable_connection.out
            /\ reliable_connection'.out = <<>>
            /\ call'.result = Ok =>
                    /\ Len(call'.sends) = Len(call'.drained)
                    /\ \A i \in 1..Len(call'.sends) :
                            /\ call'.sends[i].packet = call'.drained[i]
                            /\ call'.sends[i].to = ServerAddr
                            /\ call'.sends[i].ok
                    /\ call'.sent_samples = Len(call'.drained)
                    /\ PeerReceived(call'.sends) = reliable_connection.out
                    /\ (call.op = "send_message" /\ Len(reliable_connection.out) = 1) =>
                            /\ Len(PeerReceived(call'.sends)) = 1
                            /\ PeerReceived(call'.sends)[1] = reliable_connection.out[1]
                            /\ PeerReceived(call'.sends)[1].ch = 0]_vars

\* send_packets has flushed three queued messages, not all the same, and
\* nothing failed.
C11_Witness ==
    /\ call.op = "send_packets" /\ call.result = Ok
    /\ Len(call.drained) = 3 /\ call.drained[1] # call.drained[2]
    /\ Len(call.sends) = 3
    /\ reliable_connection.out = <<>>

\* C12: in send_packets the first failure, of the wrap or of the socket send
\* of the i-th drained packet, ends the flush with the error returned: the
\* packets before i were each sent once, packet i is not tried again, and no
\* send is attempted for a packet after i.
C12_FlushAborts ==
    (call.op = "send_packets" /\ call.drained # <<>>) =>
        LET n == Len(call.sends)
        IN  /\ n <= Len(call.drained)
            /\ \A k \in 1..n : call.sends[k].packet = call.drained[k]
            /\ \A k \in 1..(n - 1) : call.sends[k].ok
            /\ FailedSends(call.sends) # {} <=> call.result = IoErr
            /\ call.result = IoErr => FailedSends(call.sends) = {n}
            /\ call.result.tag = "Netcode" => n < Len(call.drained)
            /\ call.result = Ok => n = Len(call.drained)
            /\ call.result.tag \in {"Ok", "IO", "Netcode"}

\* Of three drained packets the second failed to be sent: one send before
\* it, its own, none after.
C12_Witness ==
    /\ call.op = "send_packets" /\ call.result = IoErr
    /\ Len(call.drained) = 3
    /\ Len(call.sends) = 2 /\ call.sends[1].ok /\ ~call.sends[2].ok

\* C13: against a cooperative peer, with no loss and no timeout, repeated
\* update(16 ms) calls reach a state where is_connected() is true, and it
\* stays true from then on.
C13_EventuallyConnected == <>[]Connected

\* The third tick completed the handshake.
C13_Witness ==
    /\ Connected
    /\ call.op = "update" /\ call.arg = TickDuration /\ call.result = Ok
    /\ current_time = start_time + 3 * TickDuration

\* C14: update checks the handshake layer's reason first: if it has one,
\* update fails with it without a receive or a send, whatever the reliable
\* transport reports; if only the reliable transport has a reason, update
\* calls disconnect() once (at most one disconnect datagram to the peer), makes
\* no receive and fails with the reliable transport's reason.
C14_TerminalChecks ==
    [][call'.op = "update" =>
            /\ netcode_disconnected(netcode_client) # NoReason =>
                    /\ call'.result = NetcodeErr(netcode_disconnected(netcode_client))
                    /\ call'.recvs = 0 /\ call'.sends = <<>> /\ call'.steps = <<>>
                    /\ netcode_client' = netcode_client
            /\ (/\ netcode_disconnected(netcode_client) = NoReason
                /\ remote_disconnected(reliable_connection) # NoReason) =>
                    /\ call'.result = RechannelErr(remote_disconnected(reliable_connection))
                    /\ call'.recvs = 0 /\ call'.steps = <<>>
                    /\ Len(call'.sends) <= 1
                    /\ \A i \in 1..Len(call'.sends) :
                            call'.sends[i].packet = "Disconnect" /\ call'.sends[i].to = ServerAddr
                    /\ netcode_disconnected(netcode_client') = "DisconnectedByClient"]_vars

\* Both layers had a reason and update failed with the handshake layer's.
C14_Witness ==
    /\ call.op = "update" /\ call.result.tag = "Netcode"
    /\ call.recvs = 0 /\ call.sends = <<>>
    /\ remote_disconnected(reliable_connection) # NoReason
    /\ call.result.reason = netcode_disconnected(netcode_client)

\* C15: one disconnect() call makes exactly one socket send attempt when the
\* handshake layer produces the disconnect payload and none when it does not;
\* either way the reliable transport (queued messages, clock, reason) and the
\* logical time are left as they were.
C15_DisconnectFrame ==
    [][call'.op = "disconnect" =>
            /\ Len(call'.sends) = IF call'.arg THEN 1 ELSE 0
            /\ \A i \in 1..Len(call'.sends) :
                    call'.sends[i].packet = "Disconnect" /\ call'.sends[i].to = ServerAddr
            /\ reliable_connection' = reliable_connection
            /\ current_time' = current_time]_vars

\* disconnect() was called with a message queued and its one send failed: the
\* message is still queued.
C15_Witness ==
    /\ call.op = "disconnect" /\ call.arg
    /\ Len(call.sends) = 1 /\ ~call.sends[1].ok
    /\ reliable_connection.out # <<>>

\* C16: when a socket receive of update fails (not would-block) or the
\* reliable transport rejects a payload, update returns that error at once:
\* it reads no further datagram and skips the two maintenances and the metrics
\* recompute, while what was accepted earlier in the tick stays ingested.  A
\* receive error on its own gives neither layer a reason, and the next update
\* enters the receive loop again.
C16_LoopErrorAborts ==
    [][call'.op = "update" =>
            /\ call'.recv_error =>
                    /\ call'.result = IoErr
                    /\ call'.steps = <<>> /\ call'.sends = <<>>
                    /\ call'.recvs = call'.discarded + call'.processed + 1
                    /\ Len(reliable_connection'.inc) = Len(reliable_connection.inc) + call'.ingested
                    /\ remote_disconnected(reliable_connection')
                            = remote_disconnected(reliable_connection)
                    /\ call'.processed = 0 => netcode_client' = netcode_client
            /\ call'.ingest_error =>
                    /\ call'.result = RechannelErr(remote_disconnected(reliable_connection'))
                    /\ call'.steps = <<>> /\ call'.sends = <<>>
                    /\ ~call'.recv_error
                    /\ call'.recvs = call'.discarded + call'.processed
                    /\ call'.ingested >= 1
                    /\ Len(reliable_connection'.inc)
                            = Len(reliable_connection.inc) + call'.ingested - 1
            /\ (call.op = "update" /\ call.recv_error /\ Reason = NoDisconnection) =>
                    call'.recvs >= 1]_vars

\* An update failed on a receive; the next update entered the receive loop
\* again, ingested a payload and then had the next one rejected by the
\* reliable transport: the first message is delivered, no maintenance ran and
\* the rejection is the update's error.
C16_Witness ==
    /\ call.op = "update" /\ call.rejected_after_recv_error
    /\ call.ingest_error /\ call.result.tag = "Rechannel"
    /\ call.ingested = 2 /\ Len(reliable_connection.inc) = 1
    /\ call.steps = <<>> /\ call.sends = <<>>

\* C17: an update that returns success has first read every datagram queued
\* on the socket, up to the first would-block, handing each accepted one to
\* the handshake layer (and its payload, if any, to the reliable transport) in
\* arrival order; only then it ran the reliable transport's maintenance once,
\* the handshake layer's maintenance once (sending its packet, if any) and the
\* metrics recompute once, in this order.  The loop ends on any finite queue.
C17_TickOrder ==
    (call.op = "update" /\ call.result = Ok) =>
        /\ call.unread = 0 /\ ~call.recv_error
        /\ call.recvs = call.discarded + call.processed + 1
        /\ call.in_order
        /\ call.steps = <<"remote_update", "netcode_update", "update_metrics">>
        /\ Len(call.sends) <= 1
        /\ \A i \in 1..Len(call.sends) :
                call.sends[i].packet \in {"ConnectionRequest", "Response", "KeepAlive"}

\* A successful update read two datagrams of the server, ingested the payload
\* of one, and sent the handshake layer's packet after its maintenance.
C17_Witness ==
    /\ call.op = "update" /\ call.result = Ok
    /\ call.recvs = 3 /\ call.processed = 2 /\ call.ingested = 1
    /\ call.in_order
    /\ Len(call.sends) = 1

\* Time elapsed since construction on the clock of each layer.
RemoteElapsed == reliable_connection.time - start_time
NetcodeElapsed == netcode_client.time - start_time
Elapsed == current_time - start_time

\* An update that returned before the handshake layer's maintenance.
ReturnedEarly(c) == c.op = "update" /\ ~Ran(c.steps, "netcode_update")

\* C18 as stated: the reliable transport's elapsed time always equals the
\* session's; the handshake layer's is never more, and is strictly less after
\* any update that returned early.
C18_ClockAgreement ==
    /\ RemoteElapsed = Elapsed
    /\ NetcodeElapsed <= Elapsed
    /\ ReturnedEarly(call) => NetcodeElapsed < Elapsed

\* C18, amended: the reliable transport's elapsed time always equals the
\* session's; the handshake layer's clock is advanced by exactly the updates
\* that reach its maintenance, each by its duration, so its elapsed time is
\* never more than the session's, and an update that returns early lets it
\* fall behind by that update's duration: it is strictly less after an early
\* return of an update with a duration above zero (after an early return of
\* update(0) the two may still agree).
C18_ClockLag ==
    /\ RemoteElapsed = Elapsed /\ NetcodeElapsed <= Elapsed
    /\ [][/\ RemoteElapsed' = Elapsed' /\ NetcodeElapsed' <= Elapsed'
          /\ call'.op # "update" =>
                netcode_client'.time = netcode_client.time
          /\ (call'.op = "update" /\ ~ReturnedEarly(call')) =>
                /\ netcode_client'.time = netcode_client.time + call'.arg
                /\ Elapsed' - NetcodeElapsed' = Elapsed - NetcodeElapsed
          /\ ReturnedEarly(call') =>
                /\ netcode_client'.time = netcode_client.time
                /\ Elapsed' - NetcodeElapsed' = (Elapsed - NetcodeElapsed) + call'.arg
                /\ call'.arg > 0 => NetcodeElapsed' < Elapsed']_vars

\* An update of 16 ms returned early on a receive error: the handshake
\* layer's clock is 16 ms behind, the reliable transport's is not.
C18_Witness ==
    /\ call.op = "update" /\ call.arg = 16 /\ call.recv_error
    /\ Elapsed - NetcodeElapsed = 16
    /\ RemoteElapsed = Elapsed

\* C19: every send attempt of send_packets, disconnect or update records
\* exactly one sent-packet sample, stamped with the current logical time,
\* also when the send fails: the sent samples of a call are as many as its
\* send attempts and at least as many as the datagrams transmitted; its
\* received samples are as many as the datagrams accepted from the peer
\* address.
C19_SampleAccounting ==
    [][/\ call'.sent_samples = Len(call'.sends)
       /\ call'.sent_samples >= Len(PeerReceived(call'.sends))
       /\ \A i \in 1..Len(call'.sends) :
                call'.sends[i].sample = PacketInfoNew(current_time', 1)
       /\ call'.samples = call'.processed
       /\ call'.strangers_processed = 0
       /\ ~Ran(call'.steps, "update_metrics") =>
                /\ client_packet_info'.sent = (client_packet_info.sent \/ call'.sends # <<>>)
                /\ client_packet_info'.received
                        = (client_packet_info.received \/ call'.samples > 0)]_vars

\* A send failed and its sample is recorded all the same.
C19_Witness ==
    /\ call.op = "send_packets" /\ call.result = IoErr
    /\ Len(call.sends) = 1 /\ ~call.sends[1].ok
    /\ call.sent_samples = 1
    /\ client_packet_info.sent

\* The figures network_info() returns.
Figures == <<client_packet_info.sent_kbps, client_packet_info.received_kbps>>

\* C20: sent_kbps and received_kbps change only at the end of an update that
\* returns success, where the metrics recompute runs; send_packets,
\* disconnect, send_message, receive_message and an update that returns an
\* error leave both as they were, also when they recorded samples.
C20_FiguresFrame ==
    [][/\ (call'.op # "update" \/ call'.result # Ok) =>
                /\ Figures' = Figures
                /\ ~Ran(call'.steps, "update_metrics")
       /\ (call'.op = "update" /\ call'.result = Ok) =>
                /\ Ran(call'.steps, "update_metrics")
                /\ ~client_packet_info'.sent /\ ~client_packet_info'.received]_vars

\* An update read a datagram of the peer, recorded its sample and failed: the
\* sample waits, received_kbps is still what it was at construction.
C20_Witness ==
    /\ call.op = "update" /\ call.result # Ok
    /\ call.samples > 0
    /\ client_packet_info.received
    /\ client_packet_info.received_kbps = 0

====
